---------------------------- MODULE Spec2Model ----------------------------
(***************************************************************************)
(* Model of the audio file storage server: py_server/file_storage.py (the  *)
(* metadata store, the filename allocator and the upload / PATCH / list /  *)
(* serve / DELETE / PUT handlers) and py_server/gtts_server.py (/purge).   *)
(*                                                                         *)
(* Strings are sequences of one-character strings, so that                 *)
(* secure_filename, rsplit, lower and the numeric suffixes are computed as *)
(* the code computes them.                                                 *)
(***************************************************************************)
EXTENDS Integers, Sequences, FiniteSets, TLC

VARIABLES
    files,      \* regular files of UPLOAD_DIR: filename -> bytes
    cfgFiles,   \* regular files of UPLOAD_DIR/configs (names only)
    meta,       \* content of audio_metadata.json: a sequence of records
    nextId,     \* number of uuid4() values drawn so far
    now,        \* the clock: one tick per request handled
    resp,       \* the last request and its response
    pc,         \* interleaved requests: position of each request
    loc         \* interleaved requests: locals of each request

vars == <<files, cfgFiles, meta, nextId, now, resp, pc, loc>>

---------------------------------------------------------------------------
(* Bounds of the model *)

\* number of requests handled in one behaviour of the sequential server
MaxRequests == 3
\* the allocator is tried on directories that already hold any subset of
\* bird.wav, bird_1.wav .. bird_<MaxPrefill>.wav
MaxPrefill == 3
\* number of allocations in one behaviour of the allocator specification
MaxAllocs == 2

\* program constant: the last numeric suffix the allocator tries
MaxCounter == 1000

---------------------------------------------------------------------------
(* Characters and strings *)

LowerLetters == <<"a","b","c","d","e","f","g","h","i","j","k","l","m",
                  "n","o","p","q","r","s","t","u","v","w","x","y","z">>
UpperLetters == <<"A","B","C","D","E","F","G","H","I","J","K","L","M",
                  "N","O","P","Q","R","S","T","U","V","W","X","Y","Z">>
DigitChars   == <<"0","1","2","3","4","5","6","7","8","9">>

Range(s) == {s[i] : i \in DOMAIN s}

\* the characters _filename_ascii_strip_re keeps: [A-Za-z0-9_.-]
SafeChars == Range(LowerLetters) \cup Range(UpperLetters) \cup Range(DigitChars)
                \cup {"_", ".", "-"}

\* str.split() separators
Whitespace == {" ", "\t"}

UpperSet == Range(UpperLetters)

\* str.lower() of one character
LowerChar(c) ==
    IF c \in UpperSet
    THEN LowerLetters[CHOOSE i \in DOMAIN UpperLetters : UpperLetters[i] = c]
    ELSE c

\* s.lower().replace(' ', '_')
LowerUnderscore(s) ==
    [i \in DOMAIN s |-> IF s[i] = " " THEN "_" ELSE LowerChar(s[i])]

\* str(n) for n >= 0
RECURSIVE IntToStr(_)
IntToStr(n) ==
    IF n < 10 THEN <<DigitChars[n + 1]>>
    ELSE IntToStr(n \div 10) \o <<DigitChars[(n % 10) + 1]>>

\* '.' in s
HasDot(s) == \E i \in DOMAIN s : s[i] = "."

LastDot(s) == CHOOSE i \in DOMAIN s : s[i] = "." /\ \A j \in DOMAIN s : j > i => s[j] # "."

\* s.rsplit('.', 1)[0]
RsplitHead(s) == IF HasDot(s) THEN SubSeq(s, 1, LastDot(s) - 1) ELSE s

\* s.rsplit('.', 1)[-1] if '.' in s else ''
ExtensionOf(s) == IF HasDot(s) THEN SubSeq(s, LastDot(s) + 1, Len(s)) ELSE <<>>

\* unicodedata.normalize("NFKD", ..).encode("ascii", "ignore"): an accented
\* letter decomposes into its base letter and a combining mark, which is dropped;
\* any other non-ASCII character is dropped
AsciiOf(c) ==
    IF c = "e-acute" THEN <<"e">>
    ELSE IF c = "snowman" THEN <<>>
    ELSE <<c>>

RECURSIVE AsciiIgnore(_)
AsciiIgnore(s) == IF s = <<>> THEN <<>> ELSE AsciiOf(Head(s)) \o AsciiIgnore(Tail(s))

\* _filename_ascii_strip_re.sub("", s)
RECURSIVE KeepSafe(_)
KeepSafe(s) ==
    IF s = <<>> THEN <<>>
    ELSE (IF Head(s) \in SafeChars THEN <<Head(s)>> ELSE <<>>) \o KeepSafe(Tail(s))

\* "_".join(s.split()): pending is TRUE when a word has been emitted and
\* whitespace has been seen since
RECURSIVE JoinWords(_, _, _)
JoinWords(s, started, pending) ==
    IF s = <<>> THEN <<>>
    ELSE IF Head(s) \in Whitespace THEN JoinWords(Tail(s), started, started)
    ELSE (IF pending THEN <<"_">> ELSE <<>>) \o <<Head(s)>>
            \o JoinWords(Tail(s), TRUE, FALSE)

\* s.strip("._")
RECURSIVE LStrip(_)
LStrip(s) == IF s # <<>> /\ Head(s) \in {".", "_"} THEN LStrip(Tail(s)) ELSE s
RECURSIVE RStrip(_)
RStrip(s) ==
    IF s # <<>> /\ s[Len(s)] \in {".", "_"} THEN RStrip(SubSeq(s, 1, Len(s) - 1)) ELSE s

\* werkzeug.utils.secure_filename on a POSIX host (os.sep = "/", no altsep):
\* NFKD to ASCII, each separator replaced by a space, "_".join(split()), the
\* unsafe characters removed, strip("._"); every stage is bound to its value
\* before the next one reads it
secure_filename(s) ==
    CHOOSE r \in
        {RStrip(LStrip(kept)) :
            kept \in {KeepSafe(joined) :
                joined \in {JoinWords(nosep, FALSE, FALSE) :
                    nosep \in {[i \in DOMAIN ascii |->
                                    IF ascii[i] = "/" THEN " " ELSE ascii[i]] :
                        ascii \in {AsciiIgnore(raw) : raw \in {s}}}}}} : TRUE

---------------------------------------------------------------------------
(* The storage directory *)

\* CONFIGS_DIR = UPLOAD_DIR/configs, created at start-up and never removed
ConfigsName == <<"c","o","n","f","i","g","s">>

\* names under UPLOAD_DIR that are directories: the directory itself (the
\* empty name joins to "Uploads/"), ".", ".." and configs
IsDir(f) == f \in {<<>>, <<".">>, <<".", ".">>, ConfigsName}

\* os.path.isfile(os.path.join(UPLOAD_DIR, f))
IsFile(f, fs) == f \in DOMAIN fs

\* os.path.exists(os.path.join(UPLOAD_DIR, f))
Exists(f, fs) == IsDir(f) \/ IsFile(f, fs)

\* file.save(path): create or overwrite
WriteFile(fs, f, bytes) == [g \in DOMAIN fs \cup {f} |-> IF g = f THEN bytes ELSE fs[g]]

\* os.remove(path) of a regular file
RemoveFile(fs, f) == [g \in DOMAIN fs \ {f} |-> fs[g]]

\* os.rename(old, new) of a regular file
RenameFile(fs, old, new) ==
    [g \in (DOMAIN fs \ {old}) \cup {new} |-> IF g = new THEN fs[old] ELSE fs[g]]

NoFiles == [g \in {} |-> <<>>]

---------------------------------------------------------------------------
(* The filename allocator *)

\* f"{base}.{ext}" if ext else base
DotExt(base, ext) == IF ext # <<>> THEN base \o <<".">> \o ext ELSE base

\* f"{base}_{n}.{ext}" if ext else f"{base}_{n}"
Suffixed(base, n, ext) == DotExt(base \o <<"_">> \o IntToStr(n), ext)

Allocated(name) == [ok |-> TRUE, name |-> name]
\* raise OSError("Cannot generate unique filename ...")
AllocFailed == [ok |-> FALSE, name |-> <<>>]

\* after the 1000 numeric suffixes: one try with the unix timestamp
TimestampFallback(base, ext, fs, ts) ==
    LET new_filename == secure_filename(Suffixed(base, ts, ext)) IN
    IF ~Exists(new_filename, fs) THEN Allocated(new_filename) ELSE AllocFailed

\* a faulty loop: the first numbered name is returned without the existence check
AllocLoopUnchecked(base, ext, fs, ts, counter) ==
    Allocated(secure_filename(Suffixed(base, counter, ext)))

\* a faulty pass: counter += 1 is missing
AllocIter_stuck(base, ext, fs, ts, counter) ==
    LET new_filename == secure_filename(Suffixed(base, counter, ext)) IN
    IF ~Exists(new_filename, fs)
    THEN [done |-> TRUE, result |-> Allocated(new_filename), counter |-> counter]
    ELSE [done |-> FALSE, result |-> AllocFailed, counter |-> counter]

\* one pass of the while True loop with the given counter: it returns, raises
\* (done) or leaves the incremented counter for the next pass
AllocIter(base, ext, fs, ts, counter) ==
    LET new_filename == secure_filename(Suffixed(base, counter, ext)) IN
    IF ~Exists(new_filename, fs)
    THEN [done |-> TRUE, result |-> Allocated(new_filename), counter |-> counter]
    ELSE IF counter + 1 > MaxCounter
         THEN [done |-> TRUE, result |-> TimestampFallback(base, ext, fs, ts),
               counter |-> counter + 1]
         ELSE [done |-> FALSE, result |-> AllocFailed, counter |-> counter + 1]

\* the while True loop, entered with the given counter
RECURSIVE AllocLoop(_, _, _, _, _)
AllocLoop(base, ext, fs, ts, counter) ==
    LET it == AllocIter(base, ext, fs, ts, counter) IN
    IF it.done THEN it.result
    ELSE AllocLoop(base, ext, fs, ts, it.counter)

\* a faulty allocator: the counter is incremented before its first use
get_unique_filename_skip1(base, ext, fs, ts) ==
    LET filename == secure_filename(DotExt(base, ext)) IN
    IF ~Exists(filename, fs) THEN Allocated(filename)
    ELSE AllocLoop(base, ext, fs, ts, 2)

\* get_unique_filename(base_name, extension, UPLOAD_DIR); ts is int(time.time())
get_unique_filename(base, ext, fs, ts) ==
    LET filename == secure_filename(DotExt(base, ext)) IN
    IF ~Exists(filename, fs) THEN Allocated(filename)
    ELSE AllocLoop(base, ext, fs, ts, 1)

---------------------------------------------------------------------------
(* Values of the metadata records *)

\* floats are kept in tenths; nan is the one float that compares FALSE with
\* everything
Float(tenths) == [nan |-> FALSE, v |-> tenths]
NaN == [nan |-> TRUE, v |-> 0]
FloatLT(x, y) == ~x.nan /\ ~y.nan /\ x.v < y.v

\* float(s) on the strings the requests carry; ok = FALSE is ValueError
ParseFloat(s) ==
    CASE s = "1"   -> [ok |-> TRUE, val |-> Float(10)]
      [] s = "0"   -> [ok |-> TRUE, val |-> Float(0)]
      [] s = "0.5" -> [ok |-> TRUE, val |-> Float(5)]
      [] s = "0.3" -> [ok |-> TRUE, val |-> Float(3)]
      [] s = "2"   -> [ok |-> TRUE, val |-> Float(20)]
      [] s = "-1"  -> [ok |-> TRUE, val |-> Float(-10)]
      [] s = "nan" -> [ok |-> TRUE, val |-> NaN]
      [] OTHER     -> [ok |-> FALSE, val |-> Float(0)]

valid_categories == {"sound_effect", "voice", "song", "text", "json", "other"}

\* f'/audio/{filename}'
AudioPrefix == <<"/","a","u","d","i","o","/">>
UrlOf(filename) == AudioPrefix \o filename

\* url.split('/')[-1]
LastSegment(url) ==
    IF \E i \in DOMAIN url : url[i] = "/"
    THEN LET k == CHOOSE i \in DOMAIN url :
                    url[i] = "/" /\ \A j \in DOMAIN url : j > i => url[j] # "/"
         IN SubSeq(url, k + 1, Len(url))
    ELSE url

\* datetime.now().isoformat() at clock value t
IsoFormat(t) == <<"T">> \o IntToStr(t)

Unknown == <<"U","n","k","n","o","w","n">>

\* dict.get(key, default)
Get(d, key, default) == IF key \in DOMAIN d THEN d[key] ELSE default

\* d with d[key] = val (key added when absent)
Put(d, key, val) == [k \in DOMAIN d \cup {key} |-> IF k = key THEN val ELSE d[k]]

---------------------------------------------------------------------------
(* The metadata store *)

\* the back-fill of one entry in load_metadata
BackFill(m) ==
    LET m1 == IF "source" \notin DOMAIN m
              THEN Put(m, "source", [type |-> "unknown"]) ELSE m
        m2 == IF "date" \notin DOMAIN m1 THEN Put(m1, "date", Unknown) ELSE m1
        m3 == IF "volume" \notin DOMAIN m2 THEN Put(m2, "volume", Float(10)) ELSE m2
        m4 == IF "placeholder" \notin DOMAIN m3
              THEN Put(m3, "placeholder", Get(m3, "name", Unknown)) ELSE m3
        m5 == IF "category" \notin DOMAIN m4
              THEN Put(m4, "category", "unknown") ELSE m4
    IN  IF m5.source.type = "local" /\ "metadata" \notin DOMAIN m5.source
        THEN Put(m5, "source",
                 Put(m5.source, "metadata",
                     [name |-> Get(m5, "name", Unknown),
                      type |-> Get(m5, "type", "Unknown"),
                      size |-> Get(m5, "size", -1)]))
        ELSE m5

\* load_metadata() on a metadata file holding the list md
load_metadata(md) == [i \in DOMAIN md |-> BackFill(md[i])]

\* a faulty save: the write stops before the last entry
save_metadata_partial(metadata_list) ==
    SubSeq(metadata_list, 1, Len(metadata_list) - 1)

\* save_metadata(metadata_list): the whole file is overwritten
save_metadata(metadata_list) == metadata_list

---------------------------------------------------------------------------
(* POST /upload *)

\* int(time.time()) when the clock reads t
Epoch == 1700000000
UnixTime(t) == Epoch + t

\* the outcome of a handler: the directory and the metadata file it leaves,
\* the uuids drawn, and the response
Outcome(fs, md, nid, status, body) ==
    [files |-> fs, meta |-> md, nextId |-> nid, status |-> status, body |-> body]

\* category = request.form.get('category', 'other'), validated
UploadCategory(form) ==
    LET category == Get(form, "category", "other") IN
    IF category \notin valid_categories THEN "other" ELSE category

\* volume = float(request.form.get('volume', '1')), validated
UploadVolume(form) ==
    LET parsed == ParseFloat(Get(form, "volume", "1")) IN
    IF parsed.ok
    THEN IF FloatLT(parsed.val, Float(0)) \/ FloatLT(Float(10), parsed.val)
         THEN Float(10) ELSE parsed.val
    ELSE Float(10)

\* base_name = custom_name if custom_name else original_filename.rsplit('.', 1)[0]
BaseName(form, original_filename) ==
    LET custom_name == Get(form, "name", <<>>) IN
    IF custom_name # <<>> THEN custom_name ELSE RsplitHead(original_filename)

\* the metadata dict built for one stored file
NewRecord(id, form, file, base_name, filename, t) ==
    LET placeholder == Get(form, "placeholder", <<>>) IN
    [id          |-> id,
     name        |-> base_name,
     type        |-> file.ctype,
     size        |-> Len(file.content),
     category    |-> UploadCategory(form),
     source      |-> [type |-> "local",
                      metadata |-> [name |-> filename,
                                    type |-> file.ctype,
                                    size |-> Len(file.content)]],
     date        |-> IsoFormat(t),
     volume      |-> UploadVolume(form),
     placeholder |-> IF placeholder # <<>> THEN placeholder
                     ELSE LowerUnderscore(base_name),
     url         |-> UrlOf(filename)]

\* allocate the on-disk name of one uploaded file
UploadAlloc(form, file, fs, t) ==
    LET original_filename == secure_filename(file.filename) IN
    get_unique_filename(BaseName(form, original_filename),
                        ExtensionOf(original_filename), fs, UnixTime(t))

\* a faulty 'audio' branch: the new record is saved without the loaded list
UploadSingle_fresh_list(fs, md, nid, t, form, file) ==
    IF file.filename = <<>> THEN Outcome(fs, md, nid, 400, <<>>)
    ELSE LET a == UploadAlloc(form, file, fs, t) IN
         IF ~a.ok THEN Outcome(fs, md, nid, 500, <<>>)
         ELSE LET metadata == NewRecord(nid + 1, form, file,
                                BaseName(form, secure_filename(file.filename)),
                                a.name, t)
              IN Outcome(WriteFile(fs, a.name, file.content),
                         save_metadata(<<metadata>>), nid + 1, 200, <<metadata>>)

\* the 'audio' branch: one file
UploadSingle(fs, md, nid, t, form, file) ==
    IF file.filename = <<>> THEN Outcome(fs, md, nid, 400, <<>>)
    ELSE LET a == UploadAlloc(form, file, fs, t) IN
         IF ~a.ok THEN Outcome(fs, md, nid, 500, <<>>)
         ELSE LET metadata == NewRecord(nid + 1, form, file,
                                BaseName(form, secure_filename(file.filename)),
                                a.name, t)
                  metadata_list == Append(load_metadata(md), metadata)
              IN Outcome(WriteFile(fs, a.name, file.content),
                         save_metadata(metadata_list), nid + 1, 200, <<metadata>>)

\* the for loop of the 'files' branch over the files not yet handled; ok =
\* FALSE when the allocator raised
RECURSIVE UploadLoop(_, _, _, _, _, _, _)
UploadLoop(todo, fs, metadata_list, uploaded, nid, t, form) ==
    IF todo = <<>>
    THEN [ok |-> TRUE, files |-> fs, list |-> metadata_list,
          uploaded |-> uploaded, nextId |-> nid]
    ELSE LET file == Head(todo) IN
         IF file.filename = <<>>
         THEN UploadLoop(Tail(todo), fs, metadata_list, uploaded, nid, t, form)
         ELSE LET a == UploadAlloc(form, file, fs, t) IN
              IF ~a.ok
              THEN [ok |-> FALSE, files |-> fs, list |-> metadata_list,
                    uploaded |-> uploaded, nextId |-> nid]
              ELSE LET metadata == NewRecord(nid + 1, form, file,
                                     BaseName(form, secure_filename(file.filename)),
                                     a.name, t)
                   IN UploadLoop(Tail(todo), WriteFile(fs, a.name, file.content),
                                 Append(metadata_list, metadata),
                                 Append(uploaded, metadata), nid + 1, t, form)

\* the 'files' branch: a list of files, one save for the whole request
UploadMulti(fs, md, nid, t, form, fileList) ==
    IF fileList = <<>> \/ \A i \in DOMAIN fileList : fileList[i].filename = <<>>
    THEN Outcome(fs, md, nid, 400, <<>>)
    ELSE LET r == UploadLoop(fileList, fs, load_metadata(md), <<>>, nid, t, form) IN
         IF ~r.ok THEN Outcome(r.files, md, r.nextId, 500, <<>>)
         ELSE IF r.uploaded = <<>>
              THEN Outcome(r.files, save_metadata(r.list), r.nextId, 400, <<>>)
              ELSE Outcome(r.files, save_metadata(r.list), r.nextId, 200, r.uploaded)

\* upload_audio(): req.files is request.files, req.form is request.form
upload_audio(fs, md, nid, t, req) ==
    IF "audio" \in DOMAIN req.files
    THEN UploadSingle(fs, md, nid, t, req.form, req.files.audio)
    ELSE IF "files" \in DOMAIN req.files
    THEN UploadMulti(fs, md, nid, t, req.form, req.files.files)
    ELSE Outcome(fs, md, nid, 400, <<>>)

---------------------------------------------------------------------------
(* PATCH /audio/<audio_id> *)

\* next((meta for meta in metadata_list if meta['id'] == audio_id), None):
\* the index of the first match, 0 for None
FindById(metadata_list, audio_id) ==
    IF \E i \in DOMAIN metadata_list : metadata_list[i].id = audio_id
    THEN CHOOSE i \in DOMAIN metadata_list :
            /\ metadata_list[i].id = audio_id
            /\ \A j \in 1..(i - 1) : metadata_list[j].id # audio_id
    ELSE 0

\* faulty assignments: a new name also stamps the record's date
ApplyFields_stamp_date(m, data) ==
    LET m1 == IF "name" \in DOMAIN data
              THEN [m EXCEPT !.name = data.name, !.date = Unknown] ELSE m
        m2 == IF "placeholder" \in DOMAIN data
              THEN [m1 EXCEPT !.placeholder = data.placeholder] ELSE m1
    IN  IF "volume" \in DOMAIN data
        THEN [m2 EXCEPT !.volume = ParseFloat(data.volume).val] ELSE m2

\* the name / placeholder / volume assignments; volume is float(data['volume'])
ApplyFields(m, data) ==
    LET m1 == IF "name" \in DOMAIN data THEN [m EXCEPT !.name = data.name] ELSE m
        m2 == IF "placeholder" \in DOMAIN data
              THEN [m1 EXCEPT !.placeholder = data.placeholder] ELSE m1
    IN  IF "volume" \in DOMAIN data
        THEN [m2 EXCEPT !.volume = ParseFloat(data.volume).val] ELSE m2

\* os.rename(current_file_path, new_file_path) when the current path exists; a
\* record written by upload never names a directory
RenameIfExists(fs, current_filename, new_filename) ==
    IF IsFile(current_filename, fs)
    THEN RenameFile(fs, current_filename, new_filename) ELSE fs

\* update_audio_metadata(audio_id) with JSON body data
update_audio_metadata(fs, md, nid, t, audio_id, data) ==
    IF DOMAIN data = {} THEN Outcome(fs, md, nid, 400, <<>>)
    ELSE
    LET metadata_list == load_metadata(md)
        i == FindById(metadata_list, audio_id)
    IN
    IF i = 0 THEN Outcome(fs, md, nid, 404, <<>>)
    ELSE
    LET audio_metadata   == metadata_list[i]
        current_filename == LastSegment(audio_metadata.url)
        old_name         == audio_metadata.name
    IN
    IF "volume" \in DOMAIN data /\ ~ParseFloat(data.volume).ok
    THEN Outcome(fs, md, nid, 500, <<>>)
    ELSE
    LET updated == ApplyFields(audio_metadata, data) IN
    IF "name" \in DOMAIN data /\ data.name # old_name
    THEN LET a == get_unique_filename(data.name, ExtensionOf(current_filename),
                                      fs, UnixTime(t))
         IN
         IF ~a.ok THEN Outcome(fs, md, nid, 500, <<>>)
         ELSE
         LET fs1 == RenameIfExists(fs, current_filename, a.name) IN
         IF "metadata" \notin DOMAIN updated.source
         THEN Outcome(fs1, md, nid, 500, <<>>)
         ELSE
         LET renamed == [updated EXCEPT !.url = UrlOf(a.name),
                                        !.source.metadata.name = a.name]
         IN Outcome(fs1, save_metadata([metadata_list EXCEPT ![i] = renamed]),
                    nid, 200, <<renamed>>)
    ELSE Outcome(fs, save_metadata([metadata_list EXCEPT ![i] = updated]),
                 nid, 200, <<updated>>)

---------------------------------------------------------------------------
(* GET /audio/list, GET /audio/<filename> *)

\* list_audio()
list_audio(fs, md, nid) == Outcome(fs, md, nid, 200, load_metadata(md))

\* serve_audio(filename): send_from_directory raises NotFound unless the path
\* is a regular file
serve_audio(fs, md, nid, filename) ==
    IF IsFile(filename, fs) THEN Outcome(fs, md, nid, 200, fs[filename])
    ELSE Outcome(fs, md, nid, 404, <<>>)

---------------------------------------------------------------------------
(* DELETE /audio/<filename> *)

\* [meta for meta in metadata_list if meta['url'] != f'/audio/{filename}']
RECURSIVE WithoutUrl(_, _)
WithoutUrl(metadata_list, url) ==
    IF metadata_list = <<>> THEN <<>>
    ELSE IF Head(metadata_list).url # url
         THEN <<Head(metadata_list)>> \o WithoutUrl(Tail(metadata_list), url)
         ELSE WithoutUrl(Tail(metadata_list), url)

\* a faulty delete: the metadata is filtered and saved before the file is
\* looked for
delete_audio_filter_first(fs, md, nid, filename) ==
    LET metadata_list == WithoutUrl(load_metadata(md), UrlOf(filename)) IN
    IF ~Exists(filename, fs)
    THEN Outcome(fs, save_metadata(metadata_list), nid, 404, <<>>)
    ELSE IF IsFile(filename, fs)
         THEN Outcome(RemoveFile(fs, filename), save_metadata(metadata_list),
                      nid, 200, <<>>)
         ELSE Outcome(fs, save_metadata(metadata_list), nid, 500, <<>>)

\* delete_audio(filename): os.remove of a directory raises after the metadata
\* has been saved
delete_audio(fs, md, nid, filename) ==
    IF ~Exists(filename, fs) THEN Outcome(fs, md, nid, 404, <<>>)
    ELSE LET metadata_list == WithoutUrl(load_metadata(md), UrlOf(filename)) IN
         IF IsFile(filename, fs)
         THEN Outcome(RemoveFile(fs, filename), save_metadata(metadata_list),
                      nid, 200, <<>>)
         ELSE Outcome(fs, save_metadata(metadata_list), nid, 500, <<>>)

---------------------------------------------------------------------------
(* PUT /audio/<filename> *)

\* the index of the first entry whose url is the given one, 0 when none
FindByUrl(metadata_list, url) ==
    IF \E i \in DOMAIN metadata_list : metadata_list[i].url = url
    THEN CHOOSE i \in DOMAIN metadata_list :
            /\ metadata_list[i].url = url
            /\ \A j \in 1..(i - 1) : metadata_list[j].url # url
    ELSE 0

\* a faulty update: the entry's name is replaced by the filename as well
Replaced_with_name(m, filename, file, category, t) ==
    [name        |-> filename,
     id          |-> m.id,
     type        |-> file.ctype,
     size        |-> Len(file.content),
     category    |-> category,
     source      |-> [type |-> "local",
                      metadata |-> [name |-> filename, type |-> file.ctype,
                                    size |-> Len(file.content)]],
     date        |-> IsoFormat(t),
     volume      |-> m.volume,
     placeholder |-> m.placeholder,
     url         |-> m.url]

\* meta.update({...}) of replace_audio
Replaced(m, filename, file, category, t) ==
    LET m1 == Put(m, "type", file.ctype)
        m2 == Put(m1, "size", Len(file.content))
        m3 == Put(m2, "category", category)
        m4 == Put(m3, "source",
                  [type |-> "local",
                   metadata |-> [name |-> filename,
                                 type |-> file.ctype,
                                 size |-> Len(file.content)]])
    IN  Put(m4, "date", IsoFormat(t))

\* replace_audio(filename): file.save onto a directory raises
replace_audio(fs, md, nid, t, filename, req) ==
    IF "audio" \notin DOMAIN req.files THEN Outcome(fs, md, nid, 400, <<>>)
    ELSE IF req.files.audio.filename = <<>> THEN Outcome(fs, md, nid, 400, <<>>)
    ELSE IF ~Exists(filename, fs) THEN Outcome(fs, md, nid, 404, <<>>)
    ELSE IF ~IsFile(filename, fs) THEN Outcome(fs, md, nid, 500, <<>>)
    ELSE
    LET file          == req.files.audio
        category      == Get(req.form, "category", "other")
        metadata_list == load_metadata(md)
        i             == FindByUrl(metadata_list, UrlOf(filename))
        new_list      == IF i = 0 THEN metadata_list
                         ELSE [metadata_list EXCEPT
                                 ![i] = Replaced(@, filename, file, category, t)]
    IN Outcome(WriteFile(fs, filename, file.content), save_metadata(new_list),
               nid, 200, <<>>)

---------------------------------------------------------------------------
(* POST /purge *)

\* the first loop of purge_files: every regular file of UPLOAD_DIR not named
\* "configs" is removed; the metadata file lives outside UPLOAD_DIR
PurgeUploads(fs) == [g \in {f \in DOMAIN fs : f = ConfigsName} |-> fs[g]]

\* the second loop of purge_files: every regular file of CONFIGS_DIR
PurgeConfigs(cfg) == {}

\* purge_files(): the metadata list is not touched
purge_files(fs, md, nid) == Outcome(PurgeUploads(fs), md, nid, 200, <<>>)

---------------------------------------------------------------------------
(* Requests the clients send *)

Str_bird_wav  == <<"b","i","r","d",".","w","a","v">>
Str_bird      == <<"b","i","r","d">>
Str_my_song   == <<"M","y"," ","S","o","n","g",".","m","p","3">>
Str_Owl       == <<"O","w","l">>
Str_tweet     == <<"t","w","e","e","t">>
Str_nope      == <<"n","o","p","e">>
Str_cfg       == <<"v",".","j","s","o","n">>

FileBird  == [filename |-> Str_bird_wav, content |-> <<1>>,    ctype |-> "audio/wav"]
FileSong  == [filename |-> Str_my_song,  content |-> <<2, 2>>, ctype |-> "audio/mpeg"]
FileEmpty == [filename |-> <<>>,         content |-> <<>>,     ctype |-> "audio/wav"]

NoForm    == [k \in {} |-> <<>>]
FormFull  == [name |-> Str_bird, category |-> "voice", placeholder |-> Str_tweet,
              volume |-> "0.5"]
FormBad   == [category |-> "invalid_tag", volume |-> "abc"]
FormLoud  == [volume |-> "2"]
FormNan   == [volume |-> "nan"]

NoFilesField == [k \in {} |-> <<>>]

UploadRequests ==
    {[files |-> [audio |-> f], form |-> fm] :
        f \in {FileBird}, fm \in {NoForm, FormFull, FormBad, FormLoud, FormNan}}
    \cup {[files |-> [audio |-> FileSong], form |-> NoForm],
          [files |-> [audio |-> FileEmpty], form |-> NoForm],
          [files |-> NoFilesField, form |-> NoForm]}
    \cup {[files |-> [files |-> l], form |-> NoForm] :
            l \in {<<FileEmpty>>, <<FileBird, FileBird>>, <<FileEmpty, FileSong>>}}

PatchBodies ==
    {NoForm,
     [name |-> Str_Owl],
     [name |-> Str_bird],
     [placeholder |-> Str_tweet],
     [volume |-> "0.3"],
     [name |-> Str_Owl, volume |-> "abc"]}

ReplaceRequests ==
    {[files |-> [audio |-> FileSong], form |-> [category |-> "song"]],
     [files |-> [audio |-> FileEmpty], form |-> NoForm],
     [files |-> NoFilesField, form |-> NoForm]}

\* the filenames a client may name: those on disk, those the list shows, the
\* configs subdirectory and a name that was never stored
KnownFilenames ==
    DOMAIN files \cup {LastSegment(meta[i].url) : i \in DOMAIN meta}
        \cup {ConfigsName, Str_nope}

\* the ids a client may name: those drawn so far and one never drawn
KnownIds == 1..(nextId + 1)

---------------------------------------------------------------------------
(* The server handling one request at a time *)

Idle == [p \in {} |-> "idle"]

Init ==
    /\ files = NoFiles
    /\ cfgFiles = {Str_cfg}
    /\ meta = <<>>
    /\ nextId = 0
    /\ now = 0
    /\ resp = [op |-> "NONE", arg |-> <<>>, status |-> 0, body |-> <<>>]
    /\ pc = Idle
    /\ loc = Idle

\* one request handled to completion
Handle(op, arg, outcome) ==
    /\ now < MaxRequests
    /\ \E r \in {outcome} :
        /\ files' = r.files
        /\ meta' = r.meta
        /\ nextId' = r.nextId
        /\ resp' = [op |-> op, arg |-> arg, status |-> r.status, body |-> r.body]
    /\ now' = now + 1
    /\ UNCHANGED <<pc, loc>>

Upload ==
    \E req \in UploadRequests :
        /\ Handle("UPLOAD", req, upload_audio(files, meta, nextId, now, req))
        /\ UNCHANGED cfgFiles

Patch ==
    \E audio_id \in KnownIds, data \in PatchBodies :
        /\ Handle("PATCH", [id |-> audio_id, data |-> data],
                  update_audio_metadata(files, meta, nextId, now, audio_id, data))
        /\ UNCHANGED cfgFiles

List ==
    /\ Handle("LIST", <<>>, list_audio(files, meta, nextId))
    /\ UNCHANGED cfgFiles

Serve ==
    \E filename \in KnownFilenames :
        /\ Handle("GET", filename, serve_audio(files, meta, nextId, filename))
        /\ UNCHANGED cfgFiles

Delete ==
    \E filename \in KnownFilenames :
        /\ Handle("DELETE", filename, delete_audio(files, meta, nextId, filename))
        /\ UNCHANGED cfgFiles

Replace ==
    \E filename \in KnownFilenames, req \in ReplaceRequests :
        /\ Handle("PUT", [filename |-> filename, req |-> req],
                  replace_audio(files, meta, nextId, now, filename, req))
        /\ UNCHANGED cfgFiles

Purge ==
    /\ Handle("PURGE", <<>>, purge_files(files, meta, nextId))
    /\ cfgFiles' = PurgeConfigs(cfgFiles)

Next == Upload \/ Patch \/ List \/ Serve \/ Delete \/ Replace \/ Purge

Spec == Init /\ [][Next]_vars

---------------------------------------------------------------------------
(* The allocator on its own: directories left by earlier runs, then          *)
(* allocations and single-file uploads                                       *)

Str_wav      == <<"w","a","v">>
Str_a_b      == <<"a"," ","b">>
Str_qmark    == <<"?">>
Str_bird_1   == <<"b","i","r","d","_","1">>

\* (base_name, extension) pairs handed to the allocator
AllocInputs ==
    {<<Str_bird, Str_wav>>, <<Str_bird, <<>>>>, <<Str_bird_1, Str_wav>>,
     <<Str_a_b, Str_wav>>, <<Str_qmark, <<>>>>, <<ConfigsName, <<>>>>}

PrefillNames ==
    {secure_filename(DotExt(Str_bird, Str_wav))}
        \cup {secure_filename(Suffixed(Str_bird, n, Str_wav)) : n \in 1..MaxPrefill}

InitAlloc ==
    /\ \E names \in SUBSET PrefillNames : files = [g \in names |-> <<0>>]
    /\ cfgFiles = {}
    /\ meta = <<>>
    /\ nextId = 0
    /\ now = 0
    /\ resp = [op |-> "NONE", arg |-> <<>>, status |-> 0, body |-> <<>>]
    /\ pc = Idle
    /\ loc = Idle

\* get_unique_filename followed by file.save, as every caller of the
\* allocator in upload_audio does
Allocate ==
    \E in \in AllocInputs :
        /\ now < MaxAllocs
        /\ \E r \in {get_unique_filename(in[1], in[2], files, UnixTime(now))} :
            /\ resp' = [op |-> "ALLOC",
                        arg |-> [base |-> in[1], ext |-> in[2], fs |-> files],
                        status |-> IF r.ok THEN 200 ELSE 500,
                        body |-> r]
            /\ files' = IF r.ok THEN WriteFile(files, r.name, <<0>>) ELSE files
        /\ now' = now + 1
        /\ UNCHANGED <<cfgFiles, meta, nextId, pc, loc>>

AllocUpload ==
    \E req \in {[files |-> [audio |-> FileBird], form |-> NoForm],
                [files |-> [audio |-> FileBird], form |-> FormFull]} :
        /\ now < MaxAllocs
        /\ \E r \in {upload_audio(files, meta, nextId, now, req)} :
            /\ files' = r.files
            /\ meta' = r.meta
            /\ nextId' = r.nextId
            /\ resp' = [op |-> "UPLOAD", arg |-> req, status |-> r.status,
                        body |-> r.body]
        /\ now' = now + 1
        /\ UNCHANGED <<cfgFiles, pc, loc>>

NextAlloc == Allocate \/ AllocUpload

SpecAlloc == InitAlloc /\ [][NextAlloc]_vars

---------------------------------------------------------------------------
(* Properties of the allocator *)

\* C2: a filename returned by get_unique_filename does not exist in the
\* target directory at the moment it is returned, whatever the base name,
\* the extension and the directory content.
C2_AllocatedNameIsFree ==
    (resp.op = "ALLOC" /\ resp.body.ok) => ~Exists(resp.body.name, resp.arg.fs)

\* C2 witness: the allocator was called on a directory where the plain name
\* and the first suffix are taken, and returned a name
C2_Witness ==
    /\ resp.op = "ALLOC"
    /\ resp.body.ok
    /\ Exists(secure_filename(DotExt(resp.arg.base, resp.arg.ext)), resp.arg.fs)
    /\ Exists(secure_filename(Suffixed(resp.arg.base, 1, resp.arg.ext)), resp.arg.fs)

\* "base.ext" and "base_N.ext" as the claim writes them, the dot always there
PlainName(base, ext) == secure_filename(base \o <<".">> \o ext)
NumberedName(base, n, ext) ==
    secure_filename(base \o <<"_">> \o IntToStr(n) \o <<".">> \o ext)

Str_bird_1_wav == <<"b","i","r","d","_","1",".","w","a","v">>
UploadBird == [files |-> [audio |-> FileBird], form |-> NoForm]

\* C3: the allocator returns the sanitized base.ext when that file does not
\* exist, and otherwise base_N.ext for the smallest N in 1..1000 whose file
\* does not exist; uploading bird.wav into an empty directory stores bird.wav
\* and uploading it again stores bird_1.wav.
C3_SmallestFreeSuffix ==
    [][ /\ resp'.op = "ALLOC" =>
            LET base == resp'.arg.base
                ext  == resp'.arg.ext
            IN  IF ~Exists(PlainName(base, ext), files)
                THEN resp'.body = Allocated(PlainName(base, ext))
                ELSE (\E n \in 1..MaxCounter : ~Exists(NumberedName(base, n, ext), files))
                     => /\ resp'.body.ok
                        /\ \E n \in 1..MaxCounter :
                            /\ ~Exists(NumberedName(base, n, ext), files)
                            /\ \A m \in 1..(n - 1) :
                                   Exists(NumberedName(base, m, ext), files)
                            /\ resp'.body.name = NumberedName(base, n, ext)
        /\ (resp'.op = "UPLOAD" /\ resp'.arg = UploadBird /\ DOMAIN files = {})
            => /\ resp'.status = 200
               /\ resp'.body[1].url = UrlOf(Str_bird_wav)
               /\ DOMAIN files' = {Str_bird_wav}
        /\ (resp'.op = "UPLOAD" /\ resp'.arg = UploadBird
                /\ DOMAIN files = {Str_bird_wav})
            => /\ resp'.status = 200
               /\ resp'.body[1].url = UrlOf(Str_bird_1_wav)
               /\ DOMAIN files' = {Str_bird_wav, Str_bird_1_wav}
      ]_vars

\* C3 witness: bird.wav uploaded twice into an empty directory, the second
\* upload stored under the first free suffix
C3_Witness ==
    /\ resp.op = "UPLOAD"
    /\ resp.arg = UploadBird
    /\ Len(meta) = 2
    /\ meta[1].url = UrlOf(Str_bird_wav)
    /\ meta[2].url = UrlOf(Str_bird_1_wav)
    /\ DOMAIN files = {Str_bird_wav, Str_bird_1_wav}

---------------------------------------------------------------------------
(* Properties of the server handling one request at a time *)

\* what GET /audio/list returns in the current state
Listed == list_audio(files, meta, nextId).body

\* what GET /audio/<filename> returns for the directory fs
Served(fs, filename) == serve_audio(fs, meta, nextId, filename)

\* C1: after any sequence of completed requests from an empty directory and an
\* empty list, every listed record has a url whose filename component is a
\* file currently present in the storage directory.
C1_ListedUrlIsStored ==
    \A i \in DOMAIN Listed : IsFile(LastSegment(Listed[i].url), files)

\* C4: after a PATCH that changes a record's name to a different name, GET on
\* the record's old filename returns 404 and GET on the filename of its new url
\* returns the bytes that were stored under the old filename.
C4_RenameMovesBytes ==
    [][ (/\ resp'.op = "PATCH"
         /\ resp'.status = 200
         /\ "name" \in DOMAIN resp'.arg.data
         /\ resp'.arg.data.name # meta[FindById(meta, resp'.arg.id)].name)
        => LET i   == FindById(meta, resp'.arg.id)
               old == LastSegment(meta[i].url)
               new == LastSegment(meta'[i].url)
           IN  /\ Served(files', old).status = 404
               /\ Served(files', new).status = 200
               /\ IsFile(old, files)
               /\ Served(files', new).body = files[old]
      ]_vars

\* C5: /purge removes every file from the storage directory and resets the
\* metadata list to the empty array, so that list after /purge returns [].
C5_PurgeEmptiesFilesAndList ==
    (resp.op = "PURGE" /\ resp.status = 200)
        => /\ DOMAIN files = {}
           /\ cfgFiles = {}
           /\ Listed = <<>>

\* C6: DELETE on a filename with nothing stored under it returns 404 and
\* leaves the metadata list (and the directory) unchanged, even when a record's
\* url names that filename; on the name of a subdirectory, which is no file
\* either, the list and the directory are unchanged as well.
C6_DeleteMissingKeepsList ==
    [][ (resp'.op = "DELETE" /\ ~IsFile(resp'.arg, files))
        => /\ meta' = meta
           /\ files' = files
           /\ ~Exists(resp'.arg, files) => resp'.status = 404
      ]_vars

\* C6 witness: a DELETE answered 404 while a record's url names the filename
C6_Witness ==
    /\ resp.op = "DELETE"
    /\ resp.status = 404
    /\ \E i \in DOMAIN meta : meta[i].url = UrlOf(resp.arg)

\* a PUT that carries a file with a filename
WellFormedPut(req) ==
    "audio" \in DOMAIN req.files /\ req.files.audio.filename # <<>>

\* C7: PUT on an existing file overwrites its bytes and updates type, size,
\* category, source and date of the first entry whose url names the file; that
\* entry's name, placeholder, volume, id and url, every other record, every
\* other file and the number of records are unchanged. PUT on a filename with
\* nothing stored returns 404 and changes nothing.
C7_ReplaceFrame ==
    [][ (resp'.op = "PUT" /\ WellFormedPut(resp'.arg.req))
        => LET filename == resp'.arg.filename
               file     == resp'.arg.req.files.audio
               form     == resp'.arg.req.form
               hits     == {i \in DOMAIN meta : meta[i].url = UrlOf(filename)}
           IN  IF IsFile(filename, files)
               THEN /\ resp'.status = 200
                    /\ DOMAIN files' = DOMAIN files
                    /\ files'[filename] = file.content
                    /\ \A g \in DOMAIN files : g # filename => files'[g] = files[g]
                    /\ Len(meta') = Len(meta)
                    /\ \A i \in DOMAIN meta :
                        IF i \in hits /\ \A j \in hits : i <= j
                        THEN /\ meta'[i].type = file.ctype
                             /\ meta'[i].size = Len(file.content)
                             /\ meta'[i].category = Get(form, "category", "other")
                             /\ meta'[i].source =
                                    [type |-> "local",
                                     metadata |-> [name |-> filename,
                                                   type |-> file.ctype,
                                                   size |-> Len(file.content)]]
                             /\ meta'[i].date = IsoFormat(now)
                             /\ meta'[i].date # meta[i].date
                             /\ meta'[i].name = meta[i].name
                             /\ meta'[i].placeholder = meta[i].placeholder
                             /\ meta'[i].volume = meta[i].volume
                             /\ meta'[i].id = meta[i].id
                             /\ meta'[i].url = meta[i].url
                             /\ DOMAIN meta'[i] = DOMAIN meta[i]
                        ELSE meta'[i] = meta[i]
               ELSE /\ meta' = meta
                    /\ files' = files
                    /\ ~Exists(filename, files) => resp'.status = 404
      ]_vars

\* C7 witness: a file uploaded as bird.wav was replaced by an mp3, and its
\* record shows the new type and date under the old name
C7_Witness ==
    /\ resp.op = "PUT"
    /\ resp.status = 200
    /\ \E i \in DOMAIN meta :
        /\ meta[i].url = UrlOf(resp.arg.filename)
        /\ meta[i].name = Str_bird
        /\ meta[i].type = "audio/mpeg"
        /\ meta[i].category = "song"
        /\ meta[i].date = IsoFormat(now - 1)
        /\ files[resp.arg.filename] = FileSong.content

\* C8: every record created by an upload has a category of the enum and a
\* volume in [0,1]: a category outside the enum is stored as "other", a volume
\* that is unparseable or outside [0,1] is stored as 1.0.
C8_UploadCategoryAndVolume ==
    (resp.op = "UPLOAD" /\ resp.status = 200)
        => \A i \in DOMAIN resp.body :
            LET m    == resp.body[i]
                form == resp.arg.form
                vol  == ParseFloat(Get(form, "volume", "1"))
            IN  /\ m.category \in valid_categories
                /\ ~m.volume.nan /\ 0 <= m.volume.v /\ m.volume.v <= 10
                /\ Get(form, "category", "other") \notin valid_categories
                        => m.category = "other"
                /\ (~vol.ok \/ vol.val.nan \/ vol.val.v < 0 \/ vol.val.v > 10)
                        => m.volume = Float(10)

IdsOf(md) == {md[i].id : i \in DOMAIN md}

\* C9: a record is created only by upload, keeps its id (and its place)
\* through every PATCH and PUT, and leaves the list only by a DELETE naming the
\* file of its url (or by /purge); upload, PATCH and PUT never remove a record.
C9_RecordLifecycle ==
    [][ /\ IdsOf(meta') \ IdsOf(meta) # {} => resp'.op = "UPLOAD"
        /\ \A i \in DOMAIN meta :
            meta[i].id \notin IdsOf(meta')
                => \/ resp'.op = "PURGE"
                   \/ resp'.op = "DELETE" /\ meta[i].url = UrlOf(resp'.arg)
        /\ resp'.op \in {"PATCH", "PUT"}
            => /\ Len(meta') = Len(meta)
               /\ \A i \in DOMAIN meta : meta'[i].id = meta[i].id
        /\ resp'.op = "UPLOAD"
            => /\ Len(meta') >= Len(meta)
               /\ \A i \in DOMAIN meta : meta'[i].id = meta[i].id
      ]_vars

\* C9 witness: a record was renamed by PATCH and then removed by a DELETE of
\* the file its url named
C9_Witness ==
    /\ resp.op = "DELETE"
    /\ resp.status = 200
    /\ resp.arg = <<"O","w","l",".","w","a","v">>
    /\ nextId = 1
    /\ meta = <<>>

---------------------------------------------------------------------------
(* Requests served concurrently: each request is a single-file upload whose  *)
(* allocate / write / load / save steps interleave with the other requests'  *)

\* number of concurrent requests
NumProcs == 2

Procs == 1..NumProcs

ConcRequests ==
    {[files |-> [audio |-> FileBird], form |-> NoForm],
     [files |-> [audio |-> FileSong], form |-> NoForm]}

NoLocals == [req |-> [files |-> NoFilesField, form |-> NoForm], filename |-> <<>>,
             record |-> <<>>, list |-> <<>>, status |-> 0]

InitConc ==
    /\ files = NoFiles
    /\ cfgFiles = {}
    /\ meta = <<>>
    /\ nextId = 0
    /\ now = 0
    /\ resp = [op |-> "NONE", arg |-> <<>>, status |-> 0, body |-> <<>>]
    /\ pc = [p \in Procs |-> "idle"]
    /\ loc = [p \in Procs |-> NoLocals]

\* the request arrives
ConcReceive(p) ==
    \E req \in ConcRequests :
        /\ pc[p] = "idle"
        /\ pc' = [pc EXCEPT ![p] = "allocate"]
        /\ loc' = [loc EXCEPT ![p].req = req]
        /\ UNCHANGED <<files, cfgFiles, meta, nextId, now, resp>>

\* filename = get_unique_filename(base_name, extension, UPLOAD_DIR)
ConcAllocate(p) ==
    /\ pc[p] = "allocate"
    /\ \E a \in {UploadAlloc(loc[p].req.form, loc[p].req.files.audio, files, now)} :
        IF a.ok
        THEN /\ pc' = [pc EXCEPT ![p] = "write"]
             /\ loc' = [loc EXCEPT ![p].filename = a.name]
        ELSE /\ pc' = [pc EXCEPT ![p] = "done"]
             /\ loc' = [loc EXCEPT ![p].status = 500]
    /\ UNCHANGED <<files, cfgFiles, meta, nextId, now, resp>>

\* file.save(file_path)
ConcWrite(p) ==
    /\ pc[p] = "write"
    /\ files' = WriteFile(files, loc[p].filename, loc[p].req.files.audio.content)
    /\ pc' = [pc EXCEPT ![p] = "load"]
    /\ UNCHANGED <<cfgFiles, meta, nextId, now, resp, loc>>

\* the record is built (uuid4, os.path.getsize) and metadata_list = load_metadata()
ConcLoad(p) ==
    /\ pc[p] = "load"
    /\ LET req    == loc[p].req
           file   == req.files.audio
           built  == NewRecord(nextId + 1, req.form, file,
                               BaseName(req.form, secure_filename(file.filename)),
                               loc[p].filename, now)
           sized  == [built EXCEPT !.size = Len(files[loc[p].filename]),
                                   !.source.metadata.size = Len(files[loc[p].filename])]
       IN loc' = [loc EXCEPT ![p].record = <<sized>>,
                             ![p].list = load_metadata(meta)]
    /\ nextId' = nextId + 1
    /\ pc' = [pc EXCEPT ![p] = "save"]
    /\ UNCHANGED <<files, cfgFiles, meta, now, resp>>

\* metadata_list.append(metadata); save_metadata(metadata_list); return 200
ConcSave(p) ==
    /\ pc[p] = "save"
    /\ meta' = save_metadata(Append(loc[p].list, loc[p].record[1]))
    /\ pc' = [pc EXCEPT ![p] = "done"]
    /\ loc' = [loc EXCEPT ![p].status = 200]
    /\ UNCHANGED <<files, cfgFiles, nextId, now, resp>>

NextConc ==
    \E p \in Procs :
        \/ ConcReceive(p)
        \/ ConcAllocate(p)
        \/ ConcWrite(p)
        \/ ConcLoad(p)
        \/ ConcSave(p)

SpecConc == InitConc /\ [][NextConc]_vars

\* every request has returned 200
AllSucceeded == \A p \in Procs : pc[p] = "done" /\ loc[p].status = 200

\* C10: when mutating requests interleave their load and save steps, the last
\* write wins: once all have returned success the metadata file is exactly what
\* one request loaded plus that request's own record, so a change that this
\* request did not load is lost; such an execution is reachable (the witness).
C10_LastWriteWins ==
    AllSucceeded
        => \E p \in Procs :
            /\ meta = Append(loc[p].list, loc[p].record[1])
            /\ \A q \in Procs :
                (\E i \in DOMAIN meta : meta[i] = loc[q].record[1])
                    <=> (q = p \/ \E i \in DOMAIN loc[p].list :
                                    loc[p].list[i] = loc[q].record[1])

\* C10 witness: both uploads returned success and the final list lacks the
\* record of one of them
C10_Witness ==
    /\ AllSucceeded
    /\ \E q \in Procs : \A i \in DOMAIN meta : meta[i] # loc[q].record[1]

---------------------------------------------------------------------------
(* DELETE statement by statement: the server handles one request at a time,  *)
(* and the process may be killed between any two statements of a DELETE      *)

\* a faulty order: the file is removed before the filtered list is saved
delete_audio_order_remove_first == <<"exists", "remove", "save">>

\* the statements of delete_audio's try block, in program order
delete_audio_order == <<"exists", "save", "remove">>

\* the one request thread of this specification
DelProc == 1

NoDelete == [filename |-> <<>>, step |-> 0, removed |-> FALSE]

InitDel ==
    /\ files = NoFiles
    /\ cfgFiles = {Str_cfg}
    /\ meta = <<>>
    /\ nextId = 0
    /\ now = 0
    /\ resp = [op |-> "NONE", arg |-> <<>>, status |-> 0, body |-> <<>>]
    /\ pc = [p \in {DelProc} |-> "idle"]
    /\ loc = [p \in {DelProc} |-> NoDelete]

\* the statement the DELETE in progress executes next
DelAt(name) ==
    /\ pc[DelProc] = "delete"
    /\ delete_audio_order[loc[DelProc].step] = name

\* the DELETE returns with the given status
DelReturn(status) ==
    /\ pc' = [pc EXCEPT ![DelProc] = "idle"]
    /\ resp' = [op |-> "DELETE", arg |-> loc[DelProc].filename,
                status |-> status, body |-> <<>>]

\* the DELETE goes on to its next statement, or returns 200 after the last
DelAdvance ==
    IF loc[DelProc].step = Len(delete_audio_order)
    THEN DelReturn(200)
    ELSE /\ pc' = pc
         /\ resp' = [op |-> "DELETE", arg |-> loc[DelProc].filename,
                     status |-> 0, body |-> <<>>]

\* an upload or a /purge handled to completion between two DELETEs
DelOther ==
    /\ pc[DelProc] = "idle"
    /\ Upload \/ Purge

\* DELETE /audio/<filename> arrives
DelReceive ==
    \E filename \in KnownFilenames :
        /\ pc[DelProc] = "idle"
        /\ now < MaxRequests
        /\ now' = now + 1
        /\ pc' = [pc EXCEPT ![DelProc] = "delete"]
        /\ loc' = [loc EXCEPT ![DelProc] =
                        [filename |-> filename, step |-> 1, removed |-> FALSE]]
        /\ resp' = [op |-> "DELETE", arg |-> filename, status |-> 0, body |-> <<>>]
        /\ UNCHANGED <<files, cfgFiles, meta, nextId>>

\* if not os.path.exists(file_path): return 404
DelExists ==
    /\ DelAt("exists")
    /\ IF ~Exists(loc[DelProc].filename, files)
       THEN DelReturn(404)
       ELSE DelAdvance
    /\ loc' = [loc EXCEPT ![DelProc].step = @ + 1]
    /\ UNCHANGED <<files, cfgFiles, meta, nextId, now>>

\* metadata_list = load_metadata(); the filter; save_metadata(metadata_list)
DelSave ==
    /\ DelAt("save")
    /\ meta' = save_metadata(WithoutUrl(load_metadata(meta),
                                        UrlOf(loc[DelProc].filename)))
    /\ DelAdvance
    /\ loc' = [loc EXCEPT ![DelProc].step = @ + 1]
    /\ UNCHANGED <<files, cfgFiles, nextId, now>>

\* os.remove(file_path): raises on a directory, and the handler returns 500
DelRemove ==
    /\ DelAt("remove")
    /\ IF IsFile(loc[DelProc].filename, files)
       THEN /\ files' = RemoveFile(files, loc[DelProc].filename)
            /\ loc' = [loc EXCEPT ![DelProc].step = @ + 1,
                                  ![DelProc].removed = TRUE]
            /\ DelAdvance
       ELSE /\ files' = files
            /\ loc' = [loc EXCEPT ![DelProc].step = @ + 1]
            /\ DelReturn(500)
    /\ UNCHANGED <<cfgFiles, meta, nextId, now>>

\* the process is killed during a DELETE and started again: the directory and
\* the metadata file stay as the statements executed so far left them
DelCrash ==
    /\ pc[DelProc] = "delete"
    /\ pc' = [pc EXCEPT ![DelProc] = "idle"]
    /\ resp' = [op |-> "CRASH", arg |-> loc[DelProc].filename,
                status |-> 0, body |-> <<>>]
    /\ UNCHANGED <<files, cfgFiles, meta, nextId, now, loc>>

NextDel == DelOther \/ DelReceive \/ DelExists \/ DelSave \/ DelRemove \/ DelCrash

SpecDel == InitDel /\ [][NextDel]_vars

\* the records of md whose url names no stored file of fs
Dangling(md, fs) == {i \in DOMAIN md : ~IsFile(LastSegment(md[i].url), fs)}

\* C11: DELETE on an existing file first removes from the list the entries
\* whose url names the file and persists the list, and only then removes the
\* file; so at every point of a DELETE, a crash between the two steps included,
\* the only inconsistency it can introduce is a file without a record, never a
\* record whose file this DELETE has already removed.
C11_DeleteListBeforeFile ==
    [][ (resp'.op \in {"DELETE", "CRASH"})
        => LET filename == resp'.arg
               hits(md) == {i \in DOMAIN md : md[i].url = UrlOf(filename)}
           IN  \* the list is saved while the file is still there
               /\ meta' # meta => (files' = files /\ Exists(filename, files))
               \* the file is removed when the saved list no longer names it
               /\ files' # files
                    => /\ meta' = meta
                       /\ hits(meta) = {}
                       /\ files' = RemoveFile(files, filename)
               \* no point of the DELETE, and no crash, shows a record whose
               \* file this DELETE has removed
               /\ loc'[DelProc].removed => hits(meta') = {}
               /\ \A i \in Dangling(meta', files') :
                    meta'[i].url # UrlOf(filename)
                        \/ (~IsFile(filename, files) /\ ~loc'[DelProc].removed)
               \* a DELETE that returns 200 has done both steps
               /\ resp'.status = 200
                    => (hits(meta') = {} /\ ~IsFile(filename, files'))
      ]_vars

\* C11 witness: the process was killed between the two steps of a DELETE on a
\* stored file that had a record: the file is still there and no record names it
C11_Witness ==
    /\ resp.op = "CRASH"
    /\ loc[DelProc].step = 3
    /\ IsFile(resp.arg, files)
    /\ nextId = 1
    /\ meta = <<>>

---------------------------------------------------------------------------
(* Properties of the upload request *)

\* the files an upload request carries, in the field the handler reads
FilesOf(req) ==
    IF "audio" \in DOMAIN req.files THEN <<req.files.audio>>
    ELSE IF "files" \in DOMAIN req.files THEN req.files.files
    ELSE <<>>

\* C12: for each file of an upload request, in the single-file field and in
\* the multi-file field alike, a file with an empty filename makes the request
\* be rejected with a client error (400).
C12_EmptyFilenameRejected ==
    (/\ resp.op = "UPLOAD"
     /\ \E i \in DOMAIN FilesOf(resp.arg) : FilesOf(resp.arg)[i].filename = <<>>)
        => resp.status = 400

---------------------------------------------------------------------------
(* The server started on a metadata file written before the current record   *)
(* layout: load_metadata back-fills the fields such records lack             *)

\* number of requests handled in one behaviour of this specification
MaxLegacyRequests == 2

\* a record that has only the fields every handler reads without a default
LegacyBare ==
    [id |-> 1, name |-> Str_bird, type |-> "audio/wav", size |-> 1,
     url |-> UrlOf(Str_bird_wav)]

\* a record with a local source and no source.metadata block, no volume and
\* no placeholder
LegacyLocal ==
    [id |-> 1, name |-> Str_bird, type |-> "audio/wav", size |-> 1,
     url |-> UrlOf(Str_bird_wav), source |-> [type |-> "local"],
     category |-> "voice", date |-> IsoFormat(0)]

\* a record as the current upload_audio writes it
LegacyNone == NewRecord(1, NoForm, FileBird, Str_bird, Str_bird_wav, 0)

LegacyRecords == {LegacyBare, LegacyLocal, LegacyNone}

InitLegacy ==
    /\ files = [g \in {Str_bird_wav} |-> FileBird.content]
    /\ cfgFiles = {}
    /\ \E m \in LegacyRecords : meta = <<m>>
    /\ nextId = 1
    /\ now = 0
    /\ resp = [op |-> "NONE", arg |-> <<>>, status |-> 0, body |-> <<>>]
    /\ pc = Idle
    /\ loc = Idle

LegacyUploadRequests ==
    {[files |-> [audio |-> FileBird], form |-> fm] : fm \in {NoForm, FormBad}}

LegacyReplaceRequests ==
    {[files |-> [audio |-> FileSong], form |-> fm] :
        fm \in {NoForm, [category |-> "song"], [category |-> "invalid_tag"]}}

LegacyUpload ==
    \E req \in LegacyUploadRequests :
        /\ now < MaxLegacyRequests
        /\ Handle("UPLOAD", req, upload_audio(files, meta, nextId, now, req))
        /\ UNCHANGED cfgFiles

LegacyPatch ==
    \E audio_id \in KnownIds, data \in PatchBodies :
        /\ now < MaxLegacyRequests
        /\ Handle("PATCH", [id |-> audio_id, data |-> data],
                  update_audio_metadata(files, meta, nextId, now, audio_id, data))
        /\ UNCHANGED cfgFiles

LegacyList ==
    /\ now < MaxLegacyRequests
    /\ Handle("LIST", <<>>, list_audio(files, meta, nextId))
    /\ UNCHANGED cfgFiles

LegacyReplace ==
    \E filename \in KnownFilenames, req \in LegacyReplaceRequests :
        /\ now < MaxLegacyRequests
        /\ Handle("PUT", [filename |-> filename, req |-> req],
                  replace_audio(files, meta, nextId, now, filename, req))
        /\ UNCHANGED cfgFiles

NextLegacy == LegacyUpload \/ LegacyPatch \/ LegacyList \/ LegacyReplace

SpecLegacy == InitLegacy /\ [][NextLegacy]_vars

\* the form of the last upload or PUT request
C13Form == IF resp.op = "PUT" THEN resp.arg.req.form ELSE resp.arg.form

\* C13: after any sequence of metadata load, upload, PATCH and PUT operations
\* every record's category is one of sound_effect, voice, song, text, json,
\* other: a value outside the enum supplied to any operation, or a category
\* missing on load, is coerced to "other".
C13_CategoryInEnum ==
    /\ resp.op \in {"LIST", "UPLOAD", "PATCH", "PUT"}
        => /\ \A i \in DOMAIN Listed : Listed[i].category \in valid_categories
           /\ \A i \in DOMAIN meta :
                "category" \in DOMAIN meta[i]
                    => meta[i].category \in valid_categories
    /\ resp.op = "LIST"
        => \A i \in DOMAIN resp.body :
            /\ resp.body[i].category \in valid_categories
            /\ "category" \notin DOMAIN meta[i] => resp.body[i].category = "other"
    /\ (/\ resp.op \in {"UPLOAD", "PUT"}
        /\ resp.status = 200
        /\ Get(C13Form, "category", "other") \notin valid_categories)
        => \A i \in DOMAIN meta :
            meta[i].date = IsoFormat(now - 1) => meta[i].category = "other"

---------------------------------------------------------------------------
(* Properties of PATCH *)

\* C14: a successful PATCH changes at most name, placeholder, volume, url and
\* source.metadata.name of the record with the given id; that record's id,
\* type, size, category and date (never set on rename), all other records, and
\* the number and order of records are left unchanged, and url changes only
\* when the name in the body differs from the stored name.
C14_PatchFrame ==
    [][ (resp'.op = "PATCH" /\ resp'.status = 200)
        => LET before == load_metadata(meta)
               after  == load_metadata(meta')
               data   == resp'.arg.data
               k      == FindById(before, resp'.arg.id)
           IN  /\ k # 0
               /\ Len(after) = Len(before)
               /\ \A i \in DOMAIN before : i # k => after[i] = before[i]
               /\ DOMAIN after[k] = DOMAIN before[k]
               /\ after[k].id = before[k].id
               /\ after[k].type = before[k].type
               /\ after[k].size = before[k].size
               /\ after[k].category = before[k].category
               /\ after[k].date = before[k].date
               /\ after[k].source.type = before[k].source.type
               /\ "metadata" \in DOMAIN before[k].source
                    => /\ "metadata" \in DOMAIN after[k].source
                       /\ after[k].source.metadata.type = before[k].source.metadata.type
                       /\ after[k].source.metadata.size = before[k].source.metadata.size
               /\ after[k].url # before[k].url
                    => ("name" \in DOMAIN data /\ data.name # before[k].name)
               /\ after[k].source # before[k].source
                    => after[k].url # before[k].url
      ]_vars

\* C14 witness: with two records in the list, a PATCH renamed the second one,
\* which shows the new name and url under its old date
C14_Witness ==
    /\ resp.op = "PATCH"
    /\ resp.status = 200
    /\ Len(meta) = 2
    /\ meta[2].id = resp.arg.id
    /\ meta[2].name = Str_Owl
    /\ meta[2].url = UrlOf(<<"O","w","l",".","w","a","v">>)
    /\ meta[2].date = IsoFormat(1)
    /\ meta[1].name = Str_bird

---------------------------------------------------------------------------
(* The allocator pass by pass on a directory where the numbered names are    *)
(* used up                                                                   *)

\* number of allocations in one behaviour of this specification
MaxExhaustAllocs == 1

\* the one request thread of this specification
ExhProc == 1

Str_bird_1001_wav == secure_filename(Suffixed(Str_bird, MaxCounter + 1, Str_wav))

\* bird.wav and bird_1.wav .. bird_1000.wav
ExhaustedNames ==
    {secure_filename(DotExt(Str_bird, Str_wav))}
        \cup {secure_filename(Suffixed(Str_bird, n, Str_wav)) : n \in 1..MaxCounter}

\* the name the fallback tries when the clock reads t
TimestampName(base, ext, t) == secure_filename(Suffixed(base, UnixTime(t), ext))

NoAlloc == [base |-> <<>>, ext |-> <<>>, counter |-> 0]

\* the directory holds all the numbered names, or all but the last one, and
\* possibly the name the first fallback will try; bird_1001.wav is free
InitExhaust ==
    /\ \E holes \in {{}, {secure_filename(Suffixed(Str_bird, MaxCounter, Str_wav))}},
          extras \in SUBSET {TimestampName(Str_bird, Str_wav, 0)} :
            files = [g \in (ExhaustedNames \ holes) \cup extras |-> <<0>>]
    /\ cfgFiles = {}
    /\ meta = <<>>
    /\ nextId = 0
    /\ now = 0
    /\ resp = [op |-> "NONE", arg |-> <<>>, status |-> 0, body |-> <<>>]
    /\ pc = [p \in {ExhProc} |-> "idle"]
    /\ loc = [p \in {ExhProc} |-> NoAlloc]

ExhInputs == {<<Str_bird, Str_wav>>, <<Str_bird, <<>>>>, <<Str_bird_1, Str_wav>>}

\* get_unique_filename(base_name, extension, UPLOAD_DIR) is called
ExhCall ==
    \E in \in ExhInputs :
        /\ pc[ExhProc] = "idle"
        /\ now < MaxExhaustAllocs
        /\ pc' = [pc EXCEPT ![ExhProc] = "first"]
        /\ loc' = [loc EXCEPT ![ExhProc] =
                        [base |-> in[1], ext |-> in[2], counter |-> 0]]
        /\ UNCHANGED <<files, cfgFiles, meta, nextId, now, resp>>

\* the allocator returns or raises; the caller saves the file under the name
ExhReturn(r) ==
    /\ pc' = [pc EXCEPT ![ExhProc] = "idle"]
    /\ resp' = [op |-> "ALLOC",
                arg |-> [base |-> loc[ExhProc].base, ext |-> loc[ExhProc].ext],
                status |-> IF r.ok THEN 200 ELSE 500,
                body |-> r]
    /\ files' = IF r.ok THEN WriteFile(files, r.name, <<0>>) ELSE files
    /\ now' = now + 1

\* the test of the plain name, and counter = 1
ExhFirst ==
    /\ pc[ExhProc] = "first"
    /\ LET filename == secure_filename(DotExt(loc[ExhProc].base, loc[ExhProc].ext)) IN
       IF ~Exists(filename, files)
       THEN /\ ExhReturn(Allocated(filename))
            /\ loc' = loc
       ELSE /\ pc' = [pc EXCEPT ![ExhProc] = "loop"]
            /\ loc' = [loc EXCEPT ![ExhProc].counter = 1]
            /\ UNCHANGED <<files, resp, now>>
    /\ UNCHANGED <<cfgFiles, meta, nextId>>

\* one pass of the while True loop
ExhIter ==
    /\ pc[ExhProc] = "loop"
    /\ \E it \in {AllocIter(loc[ExhProc].base, loc[ExhProc].ext, files,
                            UnixTime(now), loc[ExhProc].counter)} :
        IF it.done
        THEN /\ ExhReturn(it.result)
             /\ loc' = [loc EXCEPT ![ExhProc].counter = it.counter]
        ELSE /\ loc' = [loc EXCEPT ![ExhProc].counter = it.counter]
             /\ UNCHANGED <<files, resp, now, pc>>
    /\ UNCHANGED <<cfgFiles, meta, nextId>>

NextExhaust == ExhCall \/ ExhFirst \/ ExhIter

\* a thread inside the allocator keeps running
SpecExhaust ==
    InitExhaust /\ [][NextExhaust]_vars /\ WF_vars(ExhFirst \/ ExhIter)

\* base.ext and base_N.ext for every N in 1..1000 all exist in fs
AllTaken(base, ext, fs) ==
    /\ Exists(PlainName(base, ext), fs)
    /\ \A n \in 1..MaxCounter : Exists(NumberedName(base, n, ext), fs)

\* C15: the allocator always terminates: when base.ext and base_N.ext for
\* every N in 1..1000 all exist, it tries the single name
\* base_<unix-timestamp>.ext, returns it if it does not exist and otherwise
\* fails with an allocation error; it never checks a suffix N greater than
\* 1000 and never loops indefinitely.
C15_AllocatorTerminates ==
    /\ [](pc[ExhProc] = "loop" => loc[ExhProc].counter \in 1..MaxCounter)
    /\ [][ (pc[ExhProc] # "idle" /\ pc'[ExhProc] = "idle"
                /\ AllTaken(loc[ExhProc].base, loc[ExhProc].ext, files))
            => LET name == TimestampName(loc[ExhProc].base, loc[ExhProc].ext, now) IN
               /\ resp'.body = IF ~Exists(name, files)
                               THEN Allocated(name) ELSE AllocFailed
               /\ loc'[ExhProc].counter = MaxCounter + 1
               /\ resp'.body.ok => files' = WriteFile(files, name, <<0>>)
               /\ ~resp'.body.ok => files' = files
         ]_vars
    /\ (pc[ExhProc] # "idle") ~> (pc[ExhProc] = "idle")

\* C15 witness: with all the numbered names taken, bird_1001.wav free and the
\* timestamp name taken, the allocator failed after its pass with counter 1000
C15_Witness ==
    /\ resp.op = "ALLOC"
    /\ ~resp.body.ok
    /\ loc[ExhProc].counter = MaxCounter + 1
    /\ AllTaken(Str_bird, Str_wav, files)
    /\ ~Exists(Str_bird_1001_wav, files)

---------------------------------------------------------------------------
(* Properties of the metadata list *)

\* C16: after any sequence of one-at-a-time upload, PATCH, PUT, DELETE and
\* /purge requests starting from an empty storage directory and an empty
\* metadata list, no two records in the metadata list have the same url.
C16_UrlsDistinct ==
    \A i, j \in DOMAIN meta : i # j => meta[i].url # meta[j].url

\* C17: a PATCH request that returns an error status (400, 404 or 500) leaves
\* both the persisted metadata list and the storage directory unchanged; this
\* covers an unknown id, a body that carries a name change together with an
\* unparseable volume, and a name change on a record whose source was
\* back-filled on load as {type: unknown} and has no source.metadata block.
C17_FailedPatchChangesNothing ==
    [][ (resp'.op = "PATCH" /\ resp'.status \in {400, 404, 500})
        => (meta' = meta /\ files' = files)
      ]_vars

---------------------------------------------------------------------------
(* Properties of uploads served concurrently *)

\* the request has been given an on-disk filename by the allocator
HasFilename(p) ==
    \/ pc[p] \in {"write", "load", "save"}
    \/ pc[p] = "done" /\ loc[p].status = 200

\* C18: when two upload requests with the same base name and extension
\* interleave (allocate-name, write-file, load-metadata, save-metadata as
\* separate steps), they are never allocated the same on-disk filename, so no
\* upload overwrites bytes written by another upload.
C18_DistinctFilenames ==
    \A p, q \in Procs :
        (p # q /\ HasFilename(p) /\ HasFilename(q))
            => loc[p].filename # loc[q].filename

===========================================================================
